---- MODULE Spec2Model ----
(***************************************************************************)
(* Two-stage assembler of src/toHex.py: parse_assembly builds instruction  *)
(* records and the label table, translate_to_machine_code encodes each     *)
(* record as opcode ++ operand, convert_binary_to_hex renders the words,   *)
(* and the main block warns when more than 16 words were produced.         *)
(* Python strings are TLA+ strings; str methods are operators over them.   *)
(***************************************************************************)
EXTENDS Integers, Sequences, FiniteSets, TLC

VARIABLES pc, lines, line_no, parsed_lines, labels, current_address,
          instr_no, machine_code_binary, translated,
          binary_code_list, word_no, hex_code_list, hex_machine_code,
          error, warning

vars == <<pc, lines, line_no, parsed_lines, labels, current_address,
          instr_no, machine_code_binary, translated,
          binary_code_list, word_no, hex_code_list, hex_machine_code,
          error, warning>>

(* ---------------------------- bounds ----------------------------------- *)
\* longest tail of free source lines appended to the NOP padding
MaxLen == 2
\* longest immediate token tried by the encoder entry point
MaxImmLen == 3
\* longest word handed to convert_binary_to_hex
MaxWordLen == 9

(* ------------------------- static tables ------------------------------- *)
INSTRUCTION_SET ==
    ("NOP" :> [opcode |-> "0000", format |-> ""]) @@
    ("HLT" :> [opcode |-> "0001", format |-> ""]) @@
    ("IN"  :> [opcode |-> "0010", format |-> "reg_port"]) @@
    ("OUT" :> [opcode |-> "0011", format |-> "reg_port"]) @@
    ("MOV" :> [opcode |-> "0100", format |-> "reg_reg"]) @@
    ("LDI" :> [opcode |-> "0101", format |-> "reg_imm2"]) @@
    ("ADD" :> [opcode |-> "0110", format |-> "reg_reg"]) @@
    ("SUB" :> [opcode |-> "0111", format |-> "reg_reg"]) @@
    ("DEC" :> [opcode |-> "1000", format |-> "reg"]) @@
    ("JMP" :> [opcode |-> "1001", format |-> "address"]) @@
    ("JZ"  :> [opcode |-> "1010", format |-> "address"])

REGISTERS ==
    ("R0" :> "00") @@ ("R1" :> "01") @@ ("R2" :> "10") @@ ("R3" :> "11")

PORTS ==
    ("LIGHT_PORT" :> "00") @@ ("MOTION_PORT" :> "01") @@
    ("DUMMY_PORT_A" :> "10") @@ ("DUMMY_PORT_B" :> "11")

\* ASSEMBLY_CODE.strip().split('\n')
ASSEMBLY_CODE ==
<<
    "; *****************************************************************************",
    "; PROGRAM: Motion Sensor Light Control (Strictly 4-bit PC & 2-bit Imm/Port)",
    "; DESCRIPTION: Detects motion, turns on LED, counts down max 3 seconds, turns off.",
    ";              - Uses DEC for countdown.",
    ";              - No motion re-detection during countdown.",
    ";              - Port addresses are 2-bit (00-11).",
    ";              - LDI immediate values are 2-bit (0-3).",
    "; *****************************************************************************",
    "",
    "; --- I/O Port Definitions (2-bit addresses for IN/OUT) ---",
    ".EQU LIGHT_PORT,         00b  ; Output port for the LED",
    ".EQU MOTION_PORT,        01b  ; Input port for the motion sensor",
    "; Note: LOAD_CNT_U_PORT, LOAD_CNT_T_PORT, ENABLE_CNT_PORT, TIMER_ZERO_FLAG_PORT",
    "; are not directly addressable with distinct 2-bit port addresses with this ISA.",
    "",
    "; --- Register Definitions (2-bit encoding) ---",
    ".EQU R0, 00b ; General purpose register",
    ".EQU R1, 01b ; General purpose register",
    ".EQU R2, 10b ; General purpose register",
    ".EQU R3, 11b ; General purpose register",
    "",
    "; --- Program Code (15 instructions, fits 4-bit PC) ---",
    "; Machine Code Format: [Opcode (4-bit)][Operand (4-bit)]",
    "",
    "; Memory Address: 0000b (0x0)",
    "START:",
    "    ; Initialize System: Turn off light",
    "    LDI R0, #00b              ; R0 = 0 (Value for OFF, 2-bit immediate)",
    "    OUT R0, LIGHT_PORT        ; Turn OFF Light (Port 00b)",
    "",
    "; Memory Address: 0010b (0x2)",
    "WAIT_MOTION:",
    "    ; Monitor Motion Sensor: Loop until motion is detected",
    "    IN R1, MOTION_PORT        ; Read motion sensor status into R1 (Port 01b)",
    "    MOV R0, R1                ; Copy R1 to R0. (R0 will hold motion status)",
    "    SUB R0, R0                ; R0 = R0 - R0. If R0 (motion) was 0, Z_flag is set.",
    "    JZ WAIT_MOTION            ; If Z_flag is set (no motion), loop back",
    "",
    "; Memory Address: 0110b (0x6)",
    "MOTION_DETECTED:",
    "    ; Motion Detected: Load delay value, turn on light",
    "    LDI R2, #01b              ; R2 = 1 (Example delay value, max 3 seconds due to 2-bit immediate)",
    "                              ; This sets a delay of 1 'tick'. Each tick is one DEC instruction.",
    "    LDI R0, #01b              ; R0 = 1 (Value for ON, 2-bit immediate)",
    "    OUT R0, LIGHT_PORT        ; Turn ON Light (Port 00b)",
    "",
    "; Memory Address: 1000b (0x8)",
    "COUNTDOWN_LOOP:",
    "    ; Countdown Delay",
    "    DEC R2                    ; Decrement R2 (delay register). Sets Z_flag if R2 becomes 0.",
    "    JZ LIGHT_OFF              ; If Z_flag is set (delay expired), jump to turn off light",
    "    JMP COUNTDOWN_LOOP        ; Else, continue countdown",
    "",
    "; Memory Address: 1100b (0xC)",
    "LIGHT_OFF:",
    "    ; Delay Expired: Turn off light",
    "    LDI R0, #00b              ; R0 = 0 (Value for OFF, 2-bit immediate)",
    "    OUT R0, LIGHT_PORT        ; Turn OFF Light (Port 00b)",
    "    JMP START                 ; Go back to initial state (waiting for motion)",
    "",
    "; Total Instructions: 15",
    "; This program fits within the 16-instruction limit of a 4-bit PC."
>>

(* ------------------------- str methods --------------------------------- *)
\* characters str.strip() and str.split() treat as whitespace
IsSpace(c) == c \in {" ", "\t"}

RECURSIVE LStrip(_)
LStrip(s) == IF s # "" /\ IsSpace(Head(s)) THEN LStrip(Tail(s)) ELSE s

RECURSIVE RStrip(_)
RStrip(s) ==
    IF s # "" /\ IsSpace(SubSeq(s, Len(s), Len(s)))
    THEN RStrip(SubSeq(s, 1, Len(s) - 1))
    ELSE s

\* s.strip()
Strip(s) == RStrip(LStrip(s))

\* s.startswith(p)
StartsWith(s, p) == Len(s) >= Len(p) /\ SubSeq(s, 1, Len(p)) = p

\* position of the first c in s (1-based), 0 when c is not in s
RECURSIVE Find(_, _)
Find(s, c) ==
    IF s = "" THEN 0
    ELSE IF Head(s) = c THEN 1
    ELSE LET r == Find(Tail(s), c) IN IF r = 0 THEN 0 ELSE r + 1

\* s.split(c)[0]
Before(s, c) == IF Find(s, c) = 0 THEN s ELSE SubSeq(s, 1, Find(s, c) - 1)

\* s.split(c, 1)[1], for s containing c
After(s, c) == SubSeq(s, Find(s, c) + 1, Len(s))

\* s.split(c)
RECURSIVE Split(_, _)
Split(s, c) ==
    IF Find(s, c) = 0 THEN <<s>>
    ELSE <<Before(s, c)>> \o Split(After(s, c), c)

\* s.replace(c, '')
RECURSIVE Remove(_, _)
Remove(s, c) ==
    IF s = "" THEN ""
    ELSE IF Head(s) = c THEN Remove(Tail(s), c)
    ELSE Head(s) \o Remove(Tail(s), c)

UpperChar(c) ==
    LET i == Find("abcdefghijklmnopqrstuvwxyz", c)
    IN  IF i = 0 THEN c ELSE SubSeq("ABCDEFGHIJKLMNOPQRSTUVWXYZ", i, i)

\* s.upper()
RECURSIVE Upper(_)
Upper(s) == IF s = "" THEN "" ELSE UpperChar(Head(s)) \o Upper(Tail(s))

\* length of the leading run of non-whitespace characters
RECURSIVE TokenLen(_)
TokenLen(s) ==
    IF s = "" \/ IsSpace(Head(s)) THEN 0 ELSE 1 + TokenLen(Tail(s))

\* s.split(maxsplit=1), for a stripped non-empty s
SplitFirst(s) ==
    LET n    == TokenLen(s)
        rest == LStrip(SubSeq(s, n + 1, Len(s)))
    IN  IF rest = "" THEN <<SubSeq(s, 1, n)>> ELSE <<SubSeq(s, 1, n), rest>>

\* digits of n in the given base, most significant first
RECURSIVE Digits(_, _)
Digits(n, base) ==
    LET d == SubSeq("0123456789ABCDEF", (n % base) + 1, (n % base) + 1)
    IN  IF n < base THEN d ELSE Digits(n \div base, base) \o d

\* zero padding to a minimum width: longer strings are left as they are
RECURSIVE ZeroPad(_, _)
ZeroPad(s, width) == IF Len(s) >= width THEN s ELSE ZeroPad("0" \o s, width)

\* format(n, '04b')
Format04b(n) == ZeroPad(Digits(n, 2), 4)

\* format(n, '02X')
Format02X(n) == ZeroPad(Digits(n, 16), 2)

\* int(s, 2), for s made of binary digits
RECURSIVE IntBase2(_)
IntBase2(s) ==
    IF s = "" THEN 0
    ELSE 2 * IntBase2(SubSeq(s, 1, Len(s) - 1))
         + (IF SubSeq(s, Len(s), Len(s)) = "1" THEN 1 ELSE 0)

\* re.fullmatch(r'[01]{2}', s)
FullMatchBin2(s) ==
    /\ Len(s) = 2
    /\ SubSeq(s, 1, 1) \in {"0", "1"}
    /\ SubSeq(s, 2, 2) \in {"0", "1"}

\* an empty dict
EmptyDict == [k \in {} |-> ""]

DictSetReplace(d, k, v) == [x \in {k} |-> v]

\* d[k] = v
DictSet(d, k, v) == [x \in DOMAIN d \cup {k} |-> IF x = k THEN v ELSE d[x]]

(* ------------------------- parse_assembly ------------------------------ *)
\* the test that skips blank, comment and .EQU lines (line already stripped)
Skipped(line) ==
    line = "" \/ StartsWith(line, ";") \/ StartsWith(line, ".EQU")

\* the line with its inline comment removed
Uncommented(line) == Strip(Before(line, ";"))

\* ':' in line
HasLabel(line) == Find(line, ":") # 0

\* line.split(':')[0].strip()
LabelName(line) == Strip(Before(line, ":"))

\* line.split(':', 1)[1].strip()
AfterLabel(line) == Strip(After(line, ":"))

NoRecordAdvanceOne(addr) == addr + 1

\* current_address after a line that emitted no record (the continue)
NoRecordAdvance(addr) == addr

\* one iteration of the loop over the source lines; st holds the locals
\* parsed_lines, labels and current_address
ParseLine(st, raw) ==
    LET line1 == Strip(raw) IN
    IF Skipped(line1) THEN st
    ELSE
      LET line2    == Uncommented(line1)
          hasLabel == HasLabel(line2)
          label    == LabelName(line2)
          labels2  == IF hasLabel
                      THEN DictSet(st.labels, label,
                                   Format04b(st.current_address))
                      ELSE st.labels
          line3    == IF hasLabel THEN AfterLabel(line2) ELSE line2
      IN
      IF line3 = ""
      THEN [st EXCEPT !.labels = labels2,
                      !.current_address = NoRecordAdvance(@)]
      ELSE
        LET parts    == SplitFirst(line3)
            mnemonic == Upper(parts[1])
            operands == Remove(Remove(IF Len(parts) > 1 THEN parts[2] ELSE "",
                                      " "), "#")
        IN  [parsed_lines |-> Append(st.parsed_lines,
                                     [address  |-> st.current_address,
                                      mnemonic |-> mnemonic,
                                      operands |-> operands]),
             labels |-> labels2,
             current_address |-> st.current_address + 1]

\* parse_assembly as a function of the source lines, first n lines only
RECURSIVE ParsePrefix(_, _)
ParsePrefix(src, n) ==
    IF n = 0
    THEN [parsed_lines |-> <<>>, labels |-> EmptyDict, current_address |-> 0]
    ELSE LET st == ParsePrefix(src, n - 1) IN ParseLine(st, src[n])

(* --------------------- translate_to_machine_code ----------------------- *)
\* the operand field of one instruction: [err, val], err = "" on success
EncodeOperand(fmt, operands, labs) ==
    LET parts == Split(operands, ",")
        ok(v) == [err |-> "", val |-> v]
        fail(kind) == [err |-> kind, val |-> ""]
    IN
    IF fmt = "" THEN ok("0000")
    ELSE IF fmt = "reg_port" THEN
        IF Len(parts) < 2 THEN fail("IndexError")
        ELSE LET reg == Strip(parts[1])
                 port == Strip(parts[2])
             IN  IF reg \notin DOMAIN REGISTERS THEN fail("UnresolvedRegister")
                 ELSE IF port \notin DOMAIN PORTS THEN fail("UnresolvedPort")
                 ELSE ok(REGISTERS[reg] \o PORTS[port])
    ELSE IF fmt = "reg_reg" THEN
        IF Len(parts) < 2 THEN fail("IndexError")
        ELSE LET dest_reg == Strip(parts[1])
                 src_reg == Strip(parts[2])
             IN  IF dest_reg \notin DOMAIN REGISTERS
                    \/ src_reg \notin DOMAIN REGISTERS
                 THEN fail("UnresolvedRegister")
                 ELSE ok(REGISTERS[dest_reg] \o REGISTERS[src_reg])
    ELSE IF fmt = "reg_imm2" THEN
        IF Len(parts) < 2 THEN fail("IndexError")
        ELSE LET reg == Strip(parts[1])
                 imm == Strip(parts[2])
                 imm_val == Remove(imm, "b")
             IN  IF reg \notin DOMAIN REGISTERS THEN fail("UnresolvedRegister")
                 ELSE IF ~FullMatchBin2(imm_val) THEN fail("MalformedImmediate")
                 ELSE ok(REGISTERS[reg] \o imm_val)
    ELSE IF fmt = "reg" THEN
        LET reg == Strip(operands)
        IN  IF reg \notin DOMAIN REGISTERS THEN fail("UnresolvedRegister")
            ELSE ok(REGISTERS[reg] \o "00")
    ELSE IF fmt = "address" THEN
        LET target_label == Strip(operands)
        IN  IF target_label \notin DOMAIN labs THEN fail("UndefinedLabel")
            ELSE ok(labs[target_label])
    ELSE fail("UnsupportedFormat")

\* the body of the loop over the records: [err, word]
Translate(instruction_data, labs) ==
    LET mnemonic == instruction_data.mnemonic
        operands == instruction_data.operands
    IN
    IF mnemonic \notin DOMAIN INSTRUCTION_SET
    THEN [err |-> "UnknownMnemonic", word |-> ""]
    ELSE LET opcode_info == INSTRUCTION_SET[mnemonic]
             operand == EncodeOperand(opcode_info.format, operands, labs)
         IN  IF operand.err # "" THEN [err |-> operand.err, word |-> ""]
             ELSE [err |-> "", word |-> opcode_info.opcode \o operand.val]

(* ----------------------- convert_binary_to_hex ------------------------- *)
\* the word length the converter insists on
WordBits == 8

FormatXNoPad(n) == Digits(n, 16)

\* the hex rendering of one word
HexOfWord(n) == Format02X(n)

\* the body of the loop over the words: [err, hex]
ConvertWord(binary_str) ==
    IF Len(binary_str) # WordBits
    THEN [err |-> "MalformedWord", hex |-> ""]
    ELSE [err |-> "", hex |-> HexOfWord(IntBase2(binary_str))]

(* ----------------------------- inputs ---------------------------------- *)
\* size of the address space of the 4-bit program counter
AddressSpace == 16

\* source lines the free tail of a program is drawn from
LineSet ==
    {"", "; note: see START", ".EQU R0, 00b", "L:", "L: NOP ; here",
     "  jz L", "JMP M", "M: DEC R1", "FOO R0", "LDI R0, #01b", "MOV R0"}

\* k padding instructions
Pad(k) == [i \in 1..k |-> "NOP"]

PadSizes == {0, AddressSpace - 1, AddressSpace}

Tails == UNION {[1..n -> LineSet] : n \in 0..MaxLen}

Programs == {ASSEMBLY_CODE} \cup {Pad(k) \o t : k \in PadSizes, t \in Tails}

RECURSIVE StringsOver(_, _)
StringsOver(alphabet, n) ==
    IF n = 0 THEN {""}
    ELSE {c \o s : c \in alphabet, s \in StringsOver(alphabet, n - 1)}

\* immediate tokens handed to the encoder
ImmTokens == UNION {StringsOver({"0", "1", "b", "3"}, n) : n \in 0..MaxImmLen}

\* operand strings handed to the encoder
OperandSet ==
    {"", "R0", "R4", "L", "M", "R0,R1", "R0,R4", "R4,R0", " R2 , R3 ",
     "R0,LIGHT_PORT", "R1,PORTX", "R9,LIGHT_PORT", "R7,01b", "R0,01,zz"}
    \cup {"R0," \o imm : imm \in ImmTokens}

\* records handed to the encoder
EncRecords ==
    [address : {0}, mnemonic : DOMAIN INSTRUCTION_SET \cup {"FOO"},
     operands : OperandSet]

\* words handed to the converter
Words == UNION {StringsOver({"0", "1"}, n) : n \in (WordBits - 1)..MaxWordLen}

(* ----------------------------- actions --------------------------------- *)
\* main starts by calling parse_assembly on the source text
Init ==
    /\ lines \in Programs
    /\ pc = "parse"
    /\ line_no = 1
    /\ parsed_lines = <<>>
    /\ labels = EmptyDict
    /\ current_address = 0
    /\ instr_no = 1
    /\ machine_code_binary = <<>>
    /\ translated = <<>>
    /\ binary_code_list = <<>>
    /\ word_no = 1
    /\ hex_code_list = <<>>
    /\ hex_machine_code = <<>>
    /\ error = ""
    /\ warning = FALSE

\* translate_to_machine_code called on one record and a label table
InitEnc ==
    /\ lines = <<>>
    /\ pc = "translate"
    /\ line_no = 1
    /\ parsed_lines \in {<<r>> : r \in EncRecords}
    /\ labels \in {EmptyDict, "L" :> "0011"}
    /\ current_address = 0
    /\ instr_no = 1
    /\ machine_code_binary = <<>>
    /\ translated = <<>>
    /\ binary_code_list = <<>>
    /\ word_no = 1
    /\ hex_code_list = <<>>
    /\ hex_machine_code = <<>>
    /\ error = ""
    /\ warning = FALSE

\* convert_binary_to_hex called on one word
InitHex ==
    /\ lines = <<>>
    /\ pc = "convert"
    /\ line_no = 1
    /\ parsed_lines = <<>>
    /\ labels = EmptyDict
    /\ current_address = 0
    /\ instr_no = 1
    /\ machine_code_binary = <<>>
    /\ translated = <<>>
    /\ binary_code_list \in {<<w>> : w \in Words}
    /\ word_no = 1
    /\ hex_code_list = <<>>
    /\ hex_machine_code = <<>>
    /\ error = ""
    /\ warning = FALSE

\* one iteration of the loop of parse_assembly
ParseStep ==
    /\ pc = "parse"
    /\ line_no <= Len(lines)
    /\ LET st == ParseLine([parsed_lines |-> parsed_lines, labels |-> labels,
                            current_address |-> current_address],
                           lines[line_no])
       IN  /\ parsed_lines' = st.parsed_lines
           /\ labels' = st.labels
           /\ current_address' = st.current_address
    /\ line_no' = line_no + 1
    /\ UNCHANGED <<pc, lines, instr_no, machine_code_binary, translated,
                   binary_code_list, word_no, hex_code_list,
                   hex_machine_code, error, warning>>

\* parse_assembly returns and main calls translate_to_machine_code
ParseReturn ==
    /\ pc = "parse"
    /\ line_no > Len(lines)
    /\ pc' = "translate"
    /\ instr_no' = 1
    /\ machine_code_binary' = <<>>
    /\ UNCHANGED <<lines, line_no, parsed_lines, labels, current_address,
                   translated, binary_code_list, word_no, hex_code_list,
                   hex_machine_code, error, warning>>

TranslateStepBestEffort ==
    /\ pc = "translate"
    /\ instr_no <= Len(parsed_lines)
    /\ LET r == Translate(parsed_lines[instr_no], labels)
       IN  IF r.err # ""
           THEN /\ error' = r.err
                /\ UNCHANGED machine_code_binary
           ELSE /\ machine_code_binary' = Append(machine_code_binary, r.word)
                /\ UNCHANGED error
    /\ instr_no' = instr_no + 1
    /\ UNCHANGED <<pc, lines, line_no, parsed_lines, labels, current_address,
                   translated, binary_code_list, word_no, hex_code_list,
                   hex_machine_code, warning>>

\* one iteration of the loop of translate_to_machine_code; a raise leaves
\* the function without a return value and ends the program
TranslateStep ==
    /\ pc = "translate"
    /\ instr_no <= Len(parsed_lines)
    /\ LET r == Translate(parsed_lines[instr_no], labels)
       IN  IF r.err # ""
           THEN /\ error' = r.err
                /\ pc' = "failed"
                /\ UNCHANGED <<machine_code_binary, instr_no>>
           ELSE /\ machine_code_binary' = Append(machine_code_binary, r.word)
                /\ instr_no' = instr_no + 1
                /\ UNCHANGED <<error, pc>>
    /\ UNCHANGED <<lines, line_no, parsed_lines, labels, current_address,
                   translated, binary_code_list, word_no, hex_code_list,
                   hex_machine_code, warning>>

\* translate_to_machine_code returns and main calls convert_binary_to_hex
TranslateReturn ==
    /\ pc = "translate"
    /\ instr_no > Len(parsed_lines)
    /\ translated' = machine_code_binary
    /\ binary_code_list' = machine_code_binary
    /\ word_no' = 1
    /\ hex_code_list' = <<>>
    /\ pc' = "convert"
    /\ UNCHANGED <<lines, line_no, parsed_lines, labels, current_address,
                   instr_no, machine_code_binary, hex_machine_code, error,
                   warning>>

\* one iteration of the loop of convert_binary_to_hex
ConvertStep ==
    /\ pc = "convert"
    /\ word_no <= Len(binary_code_list)
    /\ LET r == ConvertWord(binary_code_list[word_no])
       IN  IF r.err # ""
           THEN /\ error' = r.err
                /\ pc' = "failed"
                /\ UNCHANGED <<hex_code_list, word_no>>
           ELSE /\ hex_code_list' = Append(hex_code_list, r.hex)
                /\ word_no' = word_no + 1
                /\ UNCHANGED <<error, pc>>
    /\ UNCHANGED <<lines, line_no, parsed_lines, labels, current_address,
                   instr_no, machine_code_binary, translated,
                   binary_code_list, hex_machine_code, warning>>

\* convert_binary_to_hex returns its list
ConvertReturn ==
    /\ pc = "convert"
    /\ word_no > Len(binary_code_list)
    /\ hex_machine_code' = hex_code_list
    /\ pc' = "report"
    /\ UNCHANGED <<lines, line_no, parsed_lines, labels, current_address,
                   instr_no, machine_code_binary, translated,
                   binary_code_list, word_no, hex_code_list, error, warning>>

\* main prints the ROM content and warns about an over-long program
Report ==
    /\ pc = "report"
    /\ warning' = (Len(hex_machine_code) > AddressSpace)
    /\ pc' = "done"
    /\ UNCHANGED <<lines, line_no, parsed_lines, labels, current_address,
                   instr_no, machine_code_binary, translated,
                   binary_code_list, word_no, hex_code_list,
                   hex_machine_code, error>>

Next ==
    \/ ParseStep
    \/ ParseReturn
    \/ TranslateStep
    \/ TranslateReturn
    \/ ConvertStep
    \/ ConvertReturn
    \/ Report

NextEnc == TranslateStep \/ TranslateReturn

NextHex == ConvertStep \/ ConvertReturn

Spec == Init /\ [][Next]_vars

SpecEnc == InitEnc /\ [][NextEnc]_vars

SpecHex == InitHex /\ [][NextHex]_vars

(* ------------------------------ claims --------------------------------- *)
\* the source line defines a label
DefinesLabel(raw) ==
    ~Skipped(Strip(raw)) /\ HasLabel(Uncommented(Strip(raw)))

\* the label a defining source line binds
LineLabel(raw) == LabelName(Uncommented(Strip(raw)))

\* the source line emits no instruction record
NoInstruction(raw) ==
    \/ Skipped(Strip(raw))
    \/ DefinesLabel(raw) /\ AfterLabel(Uncommented(Strip(raw))) = ""

\* translate_to_machine_code has returned its list to main
Encoded == pc \in {"convert", "report", "done"} \/ error = "MalformedWord"

\* the four bits (or more) that follow the opcode
OperandField(word) == SubSeq(word, 5, Len(word))

\* the label is defined by exactly one source line
DefinedOnce(l) ==
    Cardinality({n \in DOMAIN lines :
                    DefinesLabel(lines[n]) /\ LineLabel(lines[n]) = l}) = 1

\* C1: every JMP/JZ that references a label defined (once) at address A,
\* before or after the definition line, is encoded with an operand field
\* that is the 4-bit binary representation of A.
C1_LabelOperandIsAddress ==
    Encoded =>
      \A n \in DOMAIN lines :
        (DefinesLabel(lines[n]) /\ DefinedOnce(LineLabel(lines[n]))) =>
          LET A == ParsePrefix(lines, n - 1).current_address
          IN  \A j \in DOMAIN translated :
                (/\ parsed_lines[j].mnemonic \in {"JMP", "JZ"}
                 /\ parsed_lines[j].operands = LineLabel(lines[n])) =>
                   /\ Len(OperandField(translated[j])) = 4
                   /\ IntBase2(OperandField(translated[j])) = A

\* C2: every word translate_to_machine_code returns is exactly 8 bits long,
\* also for programs of more than 16 instructions.
C2_WordsAreEightBits ==
    /\ \A j \in DOMAIN translated : Len(translated[j]) = 8
    /\ \A j \in DOMAIN machine_code_binary : Len(machine_code_binary[j]) = 8

\* every record of the parsed program encodes on its own
AllValid ==
    \A j \in DOMAIN parsed_lines :
        Translate(parsed_lines[j], labels).err = ""

\* C3: a program whose N instructions are all individually valid runs
\* through parse, encode and hex rendering to the end and yields all N
\* words; the warning is given exactly when N is 17 or more.
C3_AdvisoryIsNotFatal ==
    (pc \in {"failed", "done"} /\ AllValid) =>
      /\ pc = "done"
      /\ Len(hex_machine_code) = Len(parsed_lines)
      /\ warning = (Len(parsed_lines) >= 17)

\* the immediate token is two binary digits with an optional trailing 'b'
ImmediateWellFormed(imm) ==
    LET n == Len(imm)
        digits == IF n > 0 /\ SubSeq(imm, n, n) = "b"
                  THEN SubSeq(imm, 1, n - 1) ELSE imm
    IN  digits \in {"00", "01", "10", "11"}

\* C4: for LDI with a valid register every immediate token that is not two
\* binary digits with an optional trailing 'b' fails with
\* MalformedImmediate and yields no word.
C4_ImmediateIsStrict ==
    (pc \in {"convert", "failed"} /\ parsed_lines[1].mnemonic = "LDI") =>
      LET parts == Split(parsed_lines[1].operands, ",")
      IN  (/\ Len(parts) >= 2
           /\ Strip(parts[1]) \in DOMAIN REGISTERS
           /\ ~ImmediateWellFormed(Strip(parts[2]))) =>
             /\ error = "MalformedImmediate"
             /\ translated = <<>>

\* C5: when a record fails to encode, translate_to_machine_code ends in
\* the failure and hands no word to its caller, however many records were
\* encoded before.
C5_FailFastNoPartialOutput ==
    error \notin {"", "MalformedWord"} =>
      /\ pc = "failed"
      /\ translated = <<>>
      /\ hex_machine_code = <<>>

\* C5 witness: an unknown mnemonic after records that were encoded
C5_FailedAfterProgress ==
    /\ pc = "failed"
    /\ error = "UnknownMnemonic"
    /\ Len(machine_code_binary) > 0

\* C6: the address counter equals the number of records emitted, the i-th
\* record (0-based) has address i, and a blank, comment, .EQU or pure
\* label line leaves the counter unchanged.
C6_AddressCountsRecords ==
    /\ current_address = Len(parsed_lines)
    /\ \A i \in DOMAIN parsed_lines : parsed_lines[i].address = i - 1
    /\ (line_no > 1 /\ NoInstruction(lines[line_no - 1])) =>
         current_address = ParsePrefix(lines, line_no - 2).current_address

\* C6 witness: a pure label line was just passed after a record was emitted
C6_LabelLineAfterRecord ==
    /\ pc = "parse"
    /\ line_no > 1
    /\ DefinesLabel(lines[line_no - 1])
    /\ NoInstruction(lines[line_no - 1])
    /\ Len(parsed_lines) > 0
    /\ line_no - 1 > Len(parsed_lines)

\* int(h, 16), for h made of uppercase hex digits; -1 otherwise
RECURSIVE HexDecode(_)
HexDecode(h) ==
    IF h = "" THEN 0
    ELSE LET d == Find("0123456789ABCDEF", SubSeq(h, Len(h), Len(h)))
             r == HexDecode(SubSeq(h, 1, Len(h) - 1))
         IN  IF d = 0 \/ r < 0 THEN -1 ELSE 16 * r + d - 1

\* the word read as an unsigned integer, most significant bit first
RECURSIVE Unsigned(_, _)
Unsigned(w, acc) ==
    IF w = "" THEN acc
    ELSE Unsigned(Tail(w), 2 * acc + (IF Head(w) = "1" THEN 1 ELSE 0))

\* C7: an 8-bit word is rendered as exactly two uppercase hex digits that
\* decode to the value of the word; a word of another length fails with
\* MalformedWord.
C7_HexRoundTrip ==
    pc \in {"report", "failed"} =>
      LET w == binary_code_list[1]
      IN  IF Len(w) = 8
          THEN /\ error = ""
               /\ Len(hex_machine_code) = 1
               /\ Len(hex_machine_code[1]) = 2
               /\ HexDecode(hex_machine_code[1]) = Unsigned(w, 0)
               /\ Unsigned(w, 0) \in 0..255
          ELSE /\ error = "MalformedWord"
               /\ pc = "failed"
               /\ hex_machine_code = <<>>

\* C7 witness: a word below 16 rendered with its padding zero
C7_PaddedWord ==
    /\ pc = "report"
    /\ binary_code_list = <<"00001010">>
    /\ hex_machine_code = <<"0A">>

\* C8 as stated: an entry of the symbol table, once inserted, keeps its
\* address through every later parse step.
C8_EntryNeverModified ==
    [][\A l \in DOMAIN labels :
          l \in DOMAIN labels' /\ labels'[l] = labels[l]]_vars

\* C8 amended: an entry is never removed, and its address changes only in
\* a parse step whose line defines the same label again; the entry then
\* holds the address counter of that step.
C8_EntryChangesOnlyOnRedefinition ==
    [][\A l \in DOMAIN labels :
          /\ l \in DOMAIN labels'
          /\ labels'[l] # labels[l] =>
               /\ pc = "parse"
               /\ DefinesLabel(lines[line_no])
               /\ LineLabel(lines[line_no]) = l
               /\ labels'[l] = Format04b(current_address)]_vars

\* C8 witness: a label was just bound again, to another address
C8_LabelRedefined ==
    /\ pc = "parse"
    /\ line_no > 1
    /\ DefinesLabel(lines[line_no - 1])
    /\ LET l == LineLabel(lines[line_no - 1])
           before == ParsePrefix(lines, line_no - 2).labels
       IN  /\ l \in DOMAIN before
           /\ before[l] # labels[l]

\* C9: the built-in program yields 15 records and binds each label to the
\* address its comment states.
C9_DemoLabelsMatchComments ==
    (lines = ASSEMBLY_CODE /\ pc # "parse") =>
      /\ Len(parsed_lines) = 15
      /\ labels = ("START" :> "0000") @@ ("WAIT_MOTION" :> "0010") @@
                  ("MOTION_DETECTED" :> "0110") @@
                  ("COUNTDOWN_LOOP" :> "1000") @@ ("LIGHT_OFF" :> "1100")

\* C10: the encoder returns a word or fails with one of the six kinds.
C10_SixFailureKinds ==
    pc = "failed" =>
      error \in {"UnknownMnemonic", "UnresolvedRegister", "UnresolvedPort",
                 "MalformedImmediate", "UndefinedLabel", "UnsupportedFormat"}

====
